---- MODULE Spec2Model ----
(***************************************************************************)
(* Model of transflow: the asset bundler (core/bundler.py), the Markdown   *)
(* translator (core/translator.py, core/llm.py) and the HTTP client        *)
(* (utils/http.py).                                                        *)
(*                                                                         *)
(* Three specifications share the module.  SpecBundle runs one call of     *)
(* AssetBundler.bundle; SpecTranslate runs one call of                     *)
(* MarkdownTranslator.translate_file, of _apply_translations, of           *)
(* LLMClient.translate_batch or of LLMClient.translate_text; SpecHttp runs *)
(* one call of HTTPClient.get or HTTPClient.post.  The variables of the    *)
(* other parts stay at their idle values.                                  *)
(***************************************************************************)
EXTENDS Integers, Sequences, FiniteSets, TLC

\* ------------------------------------------------------------------ bounds
MaxRefs == 3
MaxConcurrent == 2
MaxBatchSize == 3
MaxTexts == 3
MaxSegments == 3
MaxRetries == 3

\* ------------------------------------------------------------- bundler state
VARIABLES b_pc, content, M, image_urls, task, semaphore, called, downloads,
          updated_content, readme, meta

bvars == <<b_pc, content, M, image_urls, task, semaphore, called, downloads,
           updated_content, readme, meta>>

\* ---------------------------------------------------------- translator state
\* translate_file and _translate_nodes_in_batches
VARIABLES t_pc, heap, heap0, nodes, batch_size, offset, translations, batches, output

\* input_bytes: the bytes of the input file; output_bytes: the bytes of the
\* output file when the text that was read is written back; replies: the
\* translations the translate_batch calls of the loop returned, in order;
\* raised: the exception translate_file has raised to its caller.
VARIABLES input_bytes, output_bytes, replies, raised

fvars == <<t_pc, heap, heap0, nodes, batch_size, offset, translations, batches, output,
           input_bytes, output_bytes, replies, raised>>

\* translate_batch, _translate_individually and translate_text
VARIABLES texts, tb_pc, fb_pass, fb_i, fb_results, tb_result, outstanding, tb_log

cvars == <<texts, tb_pc, fb_pass, fb_i, fb_results, tb_result, outstanding, tb_log>>

tvars == <<fvars, cvars>>

\* ---------------------------------------------------------- HTTP client state
\* One call of HTTPClient.get or HTTPClient.post: the method, the
\* max_retries of the client, the attempts made so far with what the
\* transport gave for each, the wait before the next attempt, and what the
\* caller gets.
VARIABLES h_pc, method, max_retries, attempts, wait, h_result

\* The component that owns the HTTPClient and the API key its configuration
\* holds for it.
VARIABLES component, credential

hvars == <<h_pc, method, max_retries, attempts, wait, h_result, component, credential>>

vars == <<bvars, tvars, hvars>>

\* ---------------------------------------------------------- URLs, filenames
\* A URL is its scheme, its host and the last segment of its path, the
\* segment being a sequence of characters.  UrlA and UrlB are on two hosts
\* and end with the same segment.
UrlA    == [scheme |-> "https", host |-> "a", name |-> <<"i", "@", ".", "p">>]
UrlB    == [scheme |-> "http",  host |-> "b", name |-> <<"i", "@", ".", "p">>]
UrlNoExt == [scheme |-> "https", host |-> "a", name |-> <<"i">>]
UrlRel  == [scheme |-> "rel",   host |-> "",  name |-> <<"i", ".", "p">>]
NoUrl   == [scheme |-> "",      host |-> "",  name |-> <<>>]

Urls == {UrlA, UrlB, UrlNoExt, UrlRel}

\* url.startswith(("http://", "https://"))
IsHttp(u) == u.scheme \in {"http", "https"}

\* re.sub(r"[^\w\-.]", "_", original_name)
WordChars == {"i", "p", "-", ".", "_"}
Sanitize(s) == [k \in DOMAIN s |-> IF s[k] \in WordChars THEN s[k] ELSE "_"]

\* A local filename: either the sanitized last path segment, or
\* image_<md5(url)[:8]>.jpg, kept as the URL that was hashed.
_generate_asset_filename(u) ==
    IF u.name = <<>> \/ ~(\E k \in DOMAIN u.name : u.name[k] = ".")
    THEN [hashed |-> TRUE,  of |-> u,     chars |-> <<>>]
    ELSE [hashed |-> FALSE, of |-> NoUrl, chars |-> Sanitize(u.name)]

NoFile == [hashed |-> FALSE, of |-> NoUrl, chars |-> <<>>]

\* ------------------------------------------------------------- the document
\* The text is the sequence of its image references ![alt](target "title");
\* a target is a remote URL or, after rewriting, assets/<filename>.  code
\* tells that the reference stands inside a fenced or indented code block.
Remote(u)  == [local |-> FALSE, url |-> u,     file |-> NoFile]
Local(fn)  == [local |-> TRUE,  url |-> NoUrl, file |-> fn]

Ref(u, t) == [target |-> Remote(u), title |-> t, code |-> FALSE]

CodeRef(u, t) == [target |-> Remote(u), title |-> t, code |-> TRUE]

\* The references a document is made of; the one to UrlNoExt has a title
\* and stands in a code block.
RefSet == {Ref(UrlA, FALSE), Ref(UrlB, FALSE), CodeRef(UrlNoExt, TRUE), Ref(UrlRel, FALSE)}

RECURSIVE SeqsUpTo(_, _)
SeqsUpTo(S, n) ==
    IF n = 0 THEN {<<>>}
    ELSE LET shorter == SeqsUpTo(S, n - 1)
         IN  shorter \cup {Append(s, x) : s \in {t \in shorter : Len(t) = n - 1}, x \in S}

Contents == SeqsUpTo(RefSet, MaxRefs)

\* re.findall(pattern, content) without the filter on the scheme.
_extract_image_urls_all(c) == [k \in DOMAIN c |-> c[k].target.url]

\* re.findall(pattern, content) filtered on the scheme: one entry per
\* reference, in text order.
RECURSIVE _extract_image_urls(_)
_extract_image_urls(c) ==
    IF c = <<>> THEN <<>>
    ELSE LET rest == _extract_image_urls(Tail(c))
             t    == Head(c).target
         IN  IF ~t.local /\ IsHttp(t.url) THEN <<t.url>> \o rest ELSE rest

\* One re.sub pass: every reference whose target is exactly url becomes
\* ![alt](assets/filename); the title is not kept.
RewriteOne(c, u, fn) ==
    [k \in DOMAIN c |->
        IF ~c[k].target.local /\ c[k].target.url = u
        THEN [target |-> Local(fn), title |-> FALSE, code |-> c[k].code]
        ELSE c[k]]

\* The keys of the downloads dict in insertion order.
RECURSIVE DictKeys(_, _)
DictKeys(us, d) ==
    IF us = <<>> THEN <<>>
    ELSE LET init == DictKeys(SubSeq(us, 1, Len(us) - 1), d)
             u    == us[Len(us)]
         IN  IF u \in DOMAIN d /\ ~(\E k \in DOMAIN init : init[k] = u)
             THEN Append(init, u) ELSE init

RECURSIVE RewriteAll(_, _, _)
RewriteAll(c, keys, d) ==
    IF keys = <<>> THEN c
    ELSE RewriteAll(RewriteOne(c, Head(keys), d[Head(keys)]), Tail(keys), d)

_rewrite_image_links(c, us, d) == RewriteAll(c, DictKeys(us, d), d)

\* ------------------------------------------------------------------- bundle
Tasks == DOMAIN task

InFlight == {i \in Tasks : task[i] = "inflight"}
Settled  == {i \in Tasks : task[i] \in {"ok", "failed"}}

EmptyMap == [u \in {} |-> NoFile]

\* meta.yaml: not there, or the asset entries of _generate_metadata
NoMeta == [written |-> FALSE, asset_count |-> 0, assets |-> <<>>]

\* "asset_count": len(downloads), "assets": list(downloads.values())
_generate_metadata(us, d) ==
    LET keys == DictKeys(us, d)
    IN  [written |-> TRUE,
         asset_count |-> Cardinality(DOMAIN d),
         assets |-> [k \in DOMAIN keys |-> d[keys[k]]]]

\* if v < 1 or v > 20: raise ValueError
MinDownloads == 1
MaxDownloads == 20

\* The validator with the lower limit one too low.
validate_concurrent_downloads_from_zero(v) == ~(v < MinDownloads - 1 \/ v > MaxDownloads)

\* validate_concurrent_downloads: TRUE when v is returned, FALSE when
\* ValueError is raised.
validate_concurrent_downloads(v) == ~(v < MinDownloads \/ v > MaxDownloads)

\* The values http_concurrent_downloads is given.
ConfigValues == (0..MaxConcurrent) \cup {MaxDownloads, MaxDownloads + 1}

\* TransFlowConfig(http_concurrent_downloads=M), then AssetBundler(config)
\* and bundle(input_path, output_dir)
BundleStart ==
    /\ b_pc = "config"
    /\ content \in Contents
    /\ M \in ConfigValues
    /\ image_urls = <<>>
    /\ task = <<>>
    /\ semaphore = 0
    /\ called = {}
    /\ downloads = EmptyMap
    /\ updated_content = <<>>
    /\ readme = "absent"
    /\ meta = NoMeta

\* The field validators run when the configuration object is built: a
\* rejected value leaves no configuration and no bundler.
BuildConfig ==
    /\ b_pc = "config"
    /\ b_pc' = IF validate_concurrent_downloads(M) THEN "read" ELSE "config_rejected"
    /\ UNCHANGED <<content, M, image_urls, task, semaphore, called, downloads,
                   updated_content, readme, meta>>
    /\ UNCHANGED <<tvars, hvars>>

\* input_path.read_text, then bundle_dir.mkdir / assets_dir.mkdir
ReadAndMkdir(ok) ==
    /\ b_pc = "read"
    /\ b_pc' = IF ok THEN "extract" ELSE "failed_setup"
    /\ UNCHANGED <<content, M, image_urls, task, semaphore, called, downloads,
                   updated_content, readme, meta>>
    /\ UNCHANGED <<tvars, hvars>>

\* _extract_image_urls, then the entry of _download_assets: nothing to do
\* for an empty list, otherwise the semaphore and one download_one per URL.
StartDownloads ==
    /\ b_pc = "extract"
    /\ LET us == _extract_image_urls(content)
       IN  /\ image_urls' = us
           /\ IF us = <<>>
              THEN /\ b_pc' = "rewrite"
                   /\ UNCHANGED <<task, semaphore>>
              ELSE /\ b_pc' = "gather"
                   /\ task' = [i \in 1..Len(us) |-> "pending"]
                   /\ semaphore' = M
    /\ UNCHANGED <<content, M, called, downloads, updated_content, readme, meta>>
    /\ UNCHANGED <<tvars, hvars>>

\* Acquire without the semaphore: every coroutine starts its download at once.
Acquire_unbounded(i) ==
    /\ b_pc = "gather"
    /\ i \in Tasks
    /\ task[i] = "pending"
    /\ semaphore' = semaphore - 1
    /\ task' = [task EXCEPT ![i] = "inflight"]
    /\ called' = called \cup {i}
    /\ UNCHANGED <<b_pc, content, M, image_urls, downloads, updated_content,
                   readme, meta>>
    /\ UNCHANGED <<tvars, hvars>>

\* async with semaphore: the coroutines were created in list order and the
\* semaphore wakes its waiters first-in first-out, so the next one to enter
\* is the first that is still pending.  Entering calls download_file.
Acquire(i) ==
    /\ b_pc = "gather"
    /\ i \in Tasks
    /\ task[i] = "pending"
    /\ \A j \in Tasks : j < i => task[j] # "pending"
    /\ semaphore > 0
    /\ semaphore' = semaphore - 1
    /\ task' = [task EXCEPT ![i] = "inflight"]
    /\ called' = called \cup {i}
    /\ UNCHANGED <<b_pc, content, M, image_urls, downloads, updated_content,
                   readme, meta>>
    /\ UNCHANGED <<tvars, hvars>>

Outcomes == {"ok", "network_error", "write_error"}

\* Finish without the except clause: the first failure leaves gather and
\* bundle with the exception.
Finish_propagate(i, outcome) ==
    /\ b_pc = "gather"
    /\ i \in Tasks
    /\ task[i] = "inflight"
    /\ task' = [task EXCEPT ![i] = IF outcome = "ok" THEN "ok" ELSE "failed"]
    /\ semaphore' = semaphore + 1
    /\ b_pc' = IF outcome = "ok" THEN b_pc ELSE "failed_setup"
    /\ UNCHANGED <<content, M, image_urls, called, downloads,
                   updated_content, readme, meta>>
    /\ UNCHANGED <<tvars, hvars>>

\* Finish with the semaphore released on the success path only.
Finish_leak(i, outcome) ==
    /\ b_pc = "gather"
    /\ i \in Tasks
    /\ task[i] = "inflight"
    /\ task' = [task EXCEPT ![i] = IF outcome = "ok" THEN "ok" ELSE "failed"]
    /\ semaphore' = IF outcome = "ok" THEN semaphore + 1 ELSE semaphore
    /\ UNCHANGED <<b_pc, content, M, image_urls, called, downloads,
                   updated_content, readme, meta>>
    /\ UNCHANGED <<tvars, hvars>>

\* download_file returns or raises; download_one returns (url, filename) or
\* (url, None) and leaves the semaphore.
Finish(i, outcome) ==
    /\ b_pc = "gather"
    /\ i \in Tasks
    /\ task[i] = "inflight"
    /\ task' = [task EXCEPT ![i] = IF outcome = "ok" THEN "ok" ELSE "failed"]
    /\ semaphore' = semaphore + 1
    /\ UNCHANGED <<b_pc, content, M, image_urls, called, downloads,
                   updated_content, readme, meta>>
    /\ UNCHANGED <<tvars, hvars>>

\* The mapping without the "if filename" test: failed URLs are kept too.
BuildMapping_all(us, tk) ==
    [u \in {us[i] : i \in DOMAIN us} |-> _generate_asset_filename(u)]

\* for url, filename in results: if filename: downloads[url] = filename
BuildMapping(us, tk) ==
    LET got == {us[i] : i \in {j \in DOMAIN us : tk[j] = "ok"}}
    IN  [u \in got |-> _generate_asset_filename(u)]

\* A wait that returns with the first download_one that has returned.
GatherDone_first ==
    /\ b_pc = "gather"
    /\ Settled # {}
    /\ downloads' = BuildMapping(image_urls, task)
    /\ b_pc' = "rewrite"
    /\ UNCHANGED <<content, M, image_urls, task, semaphore, called,
                   updated_content, readme, meta>>
    /\ UNCHANGED <<tvars, hvars>>

\* asyncio.gather returns once every download_one has returned.
GatherDone ==
    /\ b_pc = "gather"
    /\ Settled = Tasks
    /\ downloads' = BuildMapping(image_urls, task)
    /\ b_pc' = "rewrite"
    /\ UNCHANGED <<content, M, image_urls, task, semaphore, called,
                   updated_content, readme, meta>>
    /\ UNCHANGED <<tvars, hvars>>

RewriteLinks ==
    /\ b_pc = "rewrite"
    /\ updated_content' = _rewrite_image_links(content, image_urls, downloads)
    /\ b_pc' = "write_readme"
    /\ UNCHANGED <<content, M, image_urls, task, semaphore, called, downloads,
                   readme, meta>>
    /\ UNCHANGED <<tvars, hvars>>

WriteReadme(ok) ==
    /\ b_pc = "write_readme"
    /\ IF ok THEN readme' = "written" /\ b_pc' = "write_meta"
             ELSE readme' = readme /\ b_pc' = "failed_readme"
    /\ UNCHANGED <<content, M, image_urls, task, semaphore, called, downloads,
                   updated_content, meta>>
    /\ UNCHANGED <<tvars, hvars>>

WriteMeta(ok) ==
    /\ b_pc = "write_meta"
    /\ IF ok THEN meta' = _generate_metadata(image_urls, downloads) /\ b_pc' = "done"
             ELSE meta' = meta /\ b_pc' = "failed_meta"
    /\ UNCHANGED <<content, M, image_urls, task, semaphore, called, downloads,
                   updated_content, readme>>
    /\ UNCHANGED <<tvars, hvars>>

NextBundle ==
    \/ BuildConfig
    \/ \E ok \in BOOLEAN : ReadAndMkdir(ok)
    \/ StartDownloads
    \/ \E i \in 1..Len(image_urls) : Acquire(i)
    \/ \E i \in 1..Len(image_urls), o \in Outcomes : Finish(i, o)
    \/ GatherDone
    \/ RewriteLinks
    \/ \E ok \in BOOLEAN : WriteReadme(ok)
    \/ \E ok \in BOOLEAN : WriteMeta(ok)


\* ------------------------------------------------------------------ strings
\* A string is a sequence of characters: letters "a" and "b", "n" for a run
\* of whitespace (the "\n\n" of the marker) and "S" for the text ---SPLIT---.
Delimiter == <<"n", "S", "n">>

IsSpace(c) == c = "n"

\* str.strip()
RECURSIVE LStrip(_)
LStrip(s) == IF s # <<>> /\ IsSpace(Head(s)) THEN LStrip(Tail(s)) ELSE s

RECURSIVE RStrip(_)
RStrip(s) ==
    IF s # <<>> /\ IsSpace(s[Len(s)]) THEN RStrip(SubSeq(s, 1, Len(s) - 1)) ELSE s

Strip(s) == RStrip(LStrip(s))

\* not text.strip()
IsBlank(s) == Strip(s) = <<>>

\* "\n\n---SPLIT---\n\n".join(parts)
RECURSIVE Join(_)
Join(parts) ==
    IF parts = <<>> THEN <<>>
    ELSE IF Len(parts) = 1 THEN parts[1]
    ELSE parts[1] \o Delimiter \o Join(Tail(parts))

\* The first position at which the marker occurs in s, 0 if none.
FirstDelimiter(s) ==
    LET hits == {k \in 1..(Len(s) - 2) : SubSeq(s, k, k + 2) = Delimiter}
    IN  IF hits = {} THEN 0 ELSE CHOOSE k \in hits : \A m \in hits : k <= m

\* str.split("\n\n---SPLIT---\n\n")
RECURSIVE Split(_)
Split(s) ==
    LET k == FirstDelimiter(s)
    IN  IF k = 0 THEN <<s>>
        ELSE <<SubSeq(s, 1, k - 1)>> \o Split(SubSeq(s, k + 3, Len(s)))

\* ------------------------------------------------------- the parsed document
\* The AST is a heap of node objects; a node is named by its position in the
\* heap.  children holds the child nodes, text the string of a node whose
\* children attribute is a string (RawText, CodeSpan).
Node(k, c, t) == [kind |-> k, children |-> c, text |-> t]

SkippedKinds == {"CodeBlock", "FencedCode", "HTMLBlock"}
TranslatedKinds == {"Paragraph", "Heading", "Quote"}

\* # a / ```a``` / b
DocHeadingCode ==
    << Node("Document", <<2, 3, 4>>, <<>>),
       Node("Heading", <<5>>, <<>>),
       Node("FencedCode", <<6>>, <<>>),
       Node("Paragraph", <<7>>, <<>>),
       Node("RawText", <<>>, <<"a">>),
       Node("RawText", <<>>, <<"a">>),
       Node("RawText", <<>>, <<"b">>) >>

\* > a / a
DocQuote ==
    << Node("Document", <<2, 3>>, <<>>),
       Node("Quote", <<4>>, <<>>),
       Node("Paragraph", <<5>>, <<>>),
       Node("Paragraph", <<6>>, <<>>),
       Node("RawText", <<>>, <<"a">>),
       Node("RawText", <<>>, <<"a">>) >>

\* ```a``` / <b>
DocCodeOnly ==
    << Node("Document", <<2, 3>>, <<>>),
       Node("FencedCode", <<4>>, <<>>),
       Node("HTMLBlock", <<>>, <<"b">>),
       Node("RawText", <<>>, <<"a">>) >>

\* a `b` *b* [a](u) / `a` / - b
DocInline ==
    << Node("Document", <<2, 3, 4>>, <<>>),
       Node("Paragraph", <<5, 6, 7, 8>>, <<>>),
       Node("Paragraph", <<9>>, <<>>),
       Node("List", <<10>>, <<>>),
       Node("RawText", <<>>, <<"a">>),
       Node("CodeSpan", <<>>, <<"b">>),
       Node("Emphasis", <<11>>, <<>>),
       Node("Link", <<12>>, <<>>),
       Node("CodeSpan", <<>>, <<"a">>),
       Node("ListItem", <<13>>, <<>>),
       Node("RawText", <<>>, <<"b">>),
       Node("RawText", <<>>, <<"a">>),
       Node("Paragraph", <<14>>, <<>>),
       Node("RawText", <<>>, <<"b">>) >>

\* a / b / a / ab
DocFour ==
    << Node("Document", <<2, 3, 4, 5>>, <<>>),
       Node("Paragraph", <<6>>, <<>>),
       Node("Paragraph", <<7>>, <<>>),
       Node("Heading", <<8>>, <<>>),
       Node("Paragraph", <<9>>, <<>>),
       Node("RawText", <<>>, <<"a">>),
       Node("RawText", <<>>, <<"b">>),
       Node("RawText", <<>>, <<"a">>),
       Node("RawText", <<>>, <<"a", "b">>) >>

\* > ```a```
DocQuoteCode ==
    << Node("Document", <<2>>, <<>>),
       Node("Quote", <<3>>, <<>>),
       Node("FencedCode", <<4>>, <<>>),
       Node("RawText", <<>>, <<"a">>) >>

Docs == {DocHeadingCode, DocQuote, DocCodeOnly, DocInline, DocFour, DocQuoteCode}

RECURSIVE ExtractElement(_, _)
RECURSIVE ExtractElements(_, _)
\* extract(element) of _extract_text_from_inline: the text parts it appends
ExtractElement(h, id) ==
    IF h[id].kind = "RawText" THEN h[id].text
    ELSE IF h[id].kind = "CodeSpan" THEN <<>>
    ELSE ExtractElements(h, h[id].children)

ExtractElements(h, ids) ==
    IF ids = <<>> THEN <<>>
    ELSE ExtractElement(h, Head(ids)) \o ExtractElements(h, Tail(ids))

_extract_text_from_inline(h, id) == ExtractElements(h, h[id].children)

RECURSIVE ExtractTraverse(_, _)
RECURSIVE ExtractTraverseAll(_, _)
\* traverse(node) of _extract_translatable_nodes: the (node, text) pairs it
\* appends, in the order it appends them
ExtractTraverse(h, id) ==
    IF h[id].kind \in SkippedKinds THEN <<>>
    ELSE LET text == _extract_text_from_inline(h, id)
             own  == IF h[id].kind \in TranslatedKinds /\ ~IsBlank(text)
                     THEN << [node |-> id, text |-> text] >> ELSE <<>>
         IN  own \o ExtractTraverseAll(h, h[id].children)

ExtractTraverseAll(h, ids) ==
    IF ids = <<>> THEN <<>>
    ELSE ExtractTraverse(h, Head(ids)) \o ExtractTraverseAll(h, Tail(ids))

_extract_translatable_nodes(h) == ExtractTraverse(h, 1)

TextsOf(ns) == [k \in DOMAIN ns |-> ns[k].text]

RECURSIVE ApplyTraverse(_, _, _)
RECURSIVE ApplyTraverseAll(_, _, _)
\* The new RawText put after the children the node has.
_replace_text_in_inline_append(h, id, new_text) ==
    [Append(h, Node("RawText", <<>>, new_text)) EXCEPT ![id].children = Append(@, Len(h) + 1)]

\* _replace_text_in_inline: node.children = [RawText(new_text)]
_replace_text_in_inline(h, id, new_text) ==
    [Append(h, Node("RawText", <<>>, new_text)) EXCEPT ![id].children = <<Len(h) + 1>>]

\* traverse(node) of _apply_translations: the heap it leaves
ApplyTraverse(h, id, tr) ==
    IF h[id].kind \in SkippedKinds THEN h
    ELSE LET text == _extract_text_from_inline(h, id)
             h1   == IF /\ h[id].kind \in TranslatedKinds
                        /\ ~IsBlank(text)
                        /\ text \in DOMAIN tr
                     THEN _replace_text_in_inline(h, id, tr[text])
                     ELSE h
         IN  ApplyTraverseAll(h1, h1[id].children, tr)

ApplyTraverseAll(h, ids, tr) ==
    IF ids = <<>> THEN h
    ELSE ApplyTraverseAll(ApplyTraverse(h, Head(ids), tr), Tail(ids), tr)

_apply_translations(h, tr) == ApplyTraverse(h, 1, tr)

\* ------------------------------------------------------- the provider's side
\* What http_client.post and the decoding of its payload give the caller:
\* the content of the completion, or an exception.
Reply(c)  == [ok |-> TRUE,  content |-> c]
Failure   == [ok |-> FALSE, content |-> <<>>]

SegmentSet == {<<>>, <<"a">>, <<"b", "n">>}

\* Completions for a joined request: up to MaxSegments pieces put together
\* with the marker.
BatchReplies ==
    {Reply(Join(sg)) : sg \in (SeqsUpTo(SegmentSet, MaxSegments) \ {<<>>})} \cup {Failure}

\* Completions for a single text.
UnitReplies == {Reply(<<"a">>), Reply(<<"n", "b">>), Failure}

\* An entry of the record of one translate_batch call: what happened, for
\* which position of texts, with which completion.
Event(e, k, c) == [ev |-> e, unit |-> k, text |-> c]

LogHas(e) == \E k \in DOMAIN tb_log : tb_log[k].ev = e

\* --------------------------------------------------- LLMClient.translate_batch
\* non_empty_indices = [i for i, t in enumerate(texts) if t.strip()]
RECURSIVE NonEmptyIndices(_, _)
NonEmptyIndices(ts, k) ==
    IF k > Len(ts) THEN <<>>
    ELSE (IF IsBlank(ts[k]) THEN <<>> ELSE <<k>>) \o NonEmptyIndices(ts, k + 1)

\* The list without the filter: every position of texts.
non_empty_indices_all(ts) == [k \in 1..Len(ts) |-> k]

non_empty_indices(ts) == NonEmptyIndices(ts, 1)

non_empty_texts(ts) == [k \in DOMAIN non_empty_indices(ts) |-> ts[non_empty_indices(ts)[k]]]

\* The segments put back by position in texts, blank texts counted.
Reconstruct_by_position(ts, translated_texts) ==
    [k \in DOMAIN ts |->
        IF ~IsBlank(ts[k]) /\ k <= Len(translated_texts)
        THEN Strip(translated_texts[k]) ELSE ts[k]]

\* results = texts[:]; for idx, translated in zip(non_empty_indices,
\* translated_texts): results[idx] = translated.strip()
Reconstruct(ts, translated_texts) ==
    LET idx == non_empty_indices(ts)
    IN  [k \in DOMAIN ts |->
            IF \E m \in DOMAIN idx : idx[m] = k /\ m <= Len(translated_texts)
            THEN LET m == CHOOSE m \in DOMAIN idx : idx[m] = k
                 IN  Strip(translated_texts[m])
            ELSE ts[k]]

\* The entry of translate_batch up to the await of the joined request.
TB_Start ==
    /\ tb_pc = "start"
    /\ IF texts = <<>>
       THEN /\ tb_result' = <<>>
            /\ tb_pc' = "returned"
            /\ UNCHANGED <<outstanding, tb_log>>
       ELSE IF non_empty_texts(texts) = <<>>
       THEN /\ tb_result' = texts
            /\ tb_pc' = "returned"
            /\ UNCHANGED <<outstanding, tb_log>>
       ELSE /\ tb_pc' = "await_batch"
            /\ outstanding' = outstanding + 1
            /\ tb_log' = Append(tb_log, Event("batch_request", 0, Join(non_empty_texts(texts))))
            /\ UNCHANGED tb_result
    /\ UNCHANGED <<texts, fb_pass, fb_i, fb_results>>
    /\ UNCHANGED <<fvars, bvars, hvars>>

\* The joined request ends, and a reply whose count differs is taken as far
\* as it goes instead of being dropped.
TB_BatchReply_partial(r) ==
    /\ tb_pc = "await_batch"
    /\ outstanding' = outstanding - 1
    /\ IF ~r.ok
       THEN /\ tb_pc' = "individually"
            /\ fb_pass' = "except"
            /\ fb_i' = 1
            /\ fb_results' = <<>>
            /\ tb_log' = Append(tb_log, Event("batch_failed", 0, <<>>))
            /\ UNCHANGED tb_result
       ELSE LET translated_texts == Split(Strip(r.content))
            IN  /\ tb_result' = Reconstruct(texts, translated_texts)
                /\ tb_pc' = "returned"
                /\ tb_log' = Append(tb_log,
                        IF Len(translated_texts) # Len(non_empty_texts(texts))
                        THEN Event("batch_mismatch", 0, <<>>)
                        ELSE Event("batch_matched", 0, r.content))
                /\ UNCHANGED <<fb_pass, fb_i, fb_results>>
    /\ UNCHANGED texts
    /\ UNCHANGED <<fvars, bvars, hvars>>

\* The joined request ends, and its failure leaves translate_batch instead
\* of being caught.
TB_BatchReply_raise(r) ==
    /\ tb_pc = "await_batch"
    /\ outstanding' = outstanding - 1
    /\ IF ~r.ok
       THEN /\ tb_pc' = "raised"
            /\ tb_log' = Append(tb_log, Event("batch_failed", 0, <<>>))
            /\ UNCHANGED <<tb_result, fb_pass, fb_i, fb_results>>
       ELSE LET translated_texts == Split(Strip(r.content))
            IN  IF Len(translated_texts) # Len(non_empty_texts(texts))
                THEN /\ tb_pc' = "individually"
                     /\ fb_pass' = "try"
                     /\ fb_i' = 1
                     /\ fb_results' = <<>>
                     /\ tb_log' = Append(tb_log, Event("batch_mismatch", 0, <<>>))
                     /\ UNCHANGED tb_result
                ELSE /\ tb_result' = Reconstruct(texts, translated_texts)
                     /\ tb_pc' = "returned"
                     /\ tb_log' = Append(tb_log, Event("batch_matched", 0, r.content))
                     /\ UNCHANGED <<fb_pass, fb_i, fb_results>>
    /\ UNCHANGED texts
    /\ UNCHANGED <<fvars, bvars, hvars>>

\* The joined request ends.  A failure is caught by the except clause, which
\* calls _translate_individually (line 169); a reply is split on the marker
\* and either taken, or, when the counts differ, replaced by a call of
\* _translate_individually from inside the try block (line 155).
TB_BatchReply(r) ==
    /\ tb_pc = "await_batch"
    /\ outstanding' = outstanding - 1
    /\ IF ~r.ok
       THEN /\ tb_pc' = "individually"
            /\ fb_pass' = "except"
            /\ fb_i' = 1
            /\ fb_results' = <<>>
            /\ tb_log' = Append(tb_log, Event("batch_failed", 0, <<>>))
            /\ UNCHANGED tb_result
       ELSE LET translated_texts == Split(Strip(r.content))
            IN  IF Len(translated_texts) # Len(non_empty_texts(texts))
                THEN /\ tb_pc' = "individually"
                     /\ fb_pass' = "try"
                     /\ fb_i' = 1
                     /\ fb_results' = <<>>
                     /\ tb_log' = Append(tb_log, Event("batch_mismatch", 0, <<>>))
                     /\ UNCHANGED tb_result
                ELSE /\ tb_result' = Reconstruct(texts, translated_texts)
                     /\ tb_pc' = "returned"
                     /\ tb_log' = Append(tb_log, Event("batch_matched", 0, r.content))
                     /\ UNCHANGED <<fb_pass, fb_i, fb_results>>
    /\ UNCHANGED texts
    /\ UNCHANGED <<fvars, bvars, hvars>>

\* One turn of the loop of _translate_individually, up to the await inside
\* translate_text or to the return.
TI_Step ==
    /\ tb_pc = "individually"
    /\ IF fb_i > Len(texts)
       THEN /\ tb_result' = fb_results
            /\ tb_pc' = "returned"
            /\ UNCHANGED <<fb_i, fb_results, outstanding, tb_log>>
       ELSE IF IsBlank(texts[fb_i])
       THEN /\ fb_results' = Append(fb_results, texts[fb_i])
            /\ fb_i' = fb_i + 1
            /\ UNCHANGED <<tb_pc, tb_result, outstanding, tb_log>>
       ELSE /\ tb_pc' = "await_unit"
            /\ outstanding' = outstanding + 1
            /\ tb_log' = Append(tb_log, Event("unit_request", fb_i, texts[fb_i]))
            /\ UNCHANGED <<fb_i, fb_results, tb_result>>
    /\ UNCHANGED <<texts, fb_pass>>
    /\ UNCHANGED <<fvars, bvars, hvars>>

\* The request of translate_text ends.  A failure becomes TranslationError
\* and leaves _translate_individually: raised inside the try block of
\* translate_batch it is caught there and _translate_individually is called
\* again, raised from the except clause it leaves translate_batch.
TI_UnitReply(r) ==
    /\ tb_pc = "await_unit"
    /\ outstanding' = outstanding - 1
    /\ IF r.ok
       THEN /\ fb_results' = Append(fb_results, Strip(r.content))
            /\ fb_i' = fb_i + 1
            /\ tb_pc' = "individually"
            /\ tb_log' = Append(tb_log, Event("unit_translated", fb_i, r.content))
            /\ UNCHANGED fb_pass
       ELSE IF fb_pass = "try"
       THEN /\ fb_pass' = "except"
            /\ fb_i' = 1
            /\ fb_results' = <<>>
            /\ tb_pc' = "individually"
            /\ tb_log' = Append(tb_log, Event("unit_failed", fb_i, <<>>))
       ELSE /\ tb_pc' = "raised"
            /\ tb_log' = Append(tb_log, Event("unit_failed", fb_i, <<>>))
            /\ UNCHANGED <<fb_pass, fb_i, fb_results>>
    /\ UNCHANGED <<texts, tb_result>>
    /\ UNCHANGED <<fvars, bvars, hvars>>

\* ------------------------------------------------- LLMClient.translate_text
\* translate_text called on texts[1]: a blank text is returned as it is,
\* any other text is sent.
TT_Start ==
    /\ tb_pc = "text_start"
    /\ IF IsBlank(texts[1])
       THEN /\ tb_result' = <<texts[1]>>
            /\ tb_pc' = "returned"
            /\ UNCHANGED <<outstanding, tb_log>>
       ELSE /\ tb_pc' = "await_text"
            /\ outstanding' = outstanding + 1
            /\ tb_log' = Append(tb_log, Event("unit_request", 1, texts[1]))
            /\ UNCHANGED tb_result
    /\ UNCHANGED <<texts, fb_pass, fb_i, fb_results>>
    /\ UNCHANGED <<fvars, bvars, hvars>>

\* The request ends: the stripped completion is returned, a failure becomes
\* TranslationError.
TT_Reply(r) ==
    /\ tb_pc = "await_text"
    /\ outstanding' = outstanding - 1
    /\ IF r.ok
       THEN /\ tb_result' = <<Strip(r.content)>>
            /\ tb_pc' = "returned"
            /\ tb_log' = Append(tb_log, Event("unit_translated", 1, r.content))
       ELSE /\ tb_pc' = "raised"
            /\ tb_log' = Append(tb_log, Event("unit_failed", 1, <<>>))
            /\ UNCHANGED tb_result
    /\ UNCHANGED <<texts, fb_pass, fb_i, fb_results>>
    /\ UNCHANGED <<fvars, bvars, hvars>>

\* ------------------------------------ MarkdownTranslator.translate_file
EmptyTranslations == [t \in {} |-> <<>>]

\* The bytes of a file: "x" for a byte that is no line ending, "CR", "LF".
InputFiles == { <<"x", "LF", "x">>, <<"x", "CR", "LF", "x">> }

\* Path.read_text opens the file in text mode with newline=None: "\r\n" and
\* a lone "\r" are read as "\n".
RECURSIVE read_text(_)
read_text(bytes) ==
    IF bytes = <<>> THEN <<>>
    ELSE IF Head(bytes) = "CR"
    THEN IF Len(bytes) > 1 /\ bytes[2] = "LF"
         THEN <<"LF">> \o read_text(SubSeq(bytes, 3, Len(bytes)))
         ELSE <<"LF">> \o read_text(Tail(bytes))
    ELSE <<Head(bytes)>> \o read_text(Tail(bytes))

\* os.linesep of the platform the program runs on (POSIX)
linesep == <<"LF">>

\* Path.write_text opens the file in text mode with newline=None: each
\* "\n" is written as os.linesep.
RECURSIVE write_text(_)
write_text(data) ==
    IF data = <<>> THEN <<>>
    ELSE (IF Head(data) = "LF" THEN linesep ELSE <<Head(data)>>) \o write_text(Tail(data))

\* No exception has left translate_file.
NoException == [type |-> "none", cause |-> "none", at |-> "none"]

\* except Exception: raise, the exception leaves as it came
Reraise(e, stage) == [type |-> e, cause |-> "none", at |-> stage]

\* except Exception as e: raise TranslationError(...) from e; stage is the
\* statement of the try block that raised e.
TranslationError(e, stage) == [type |-> "TranslationError", cause |-> e, at |-> stage]

\* What a write_text that raises leaves behind: nothing when the file could
\* not be opened, a truncated or partly written file when the write itself
\* failed.
WriteOutcomes == {"ok", "not_opened", "interrupted"}

\* input_path.read_text, marko.parse, _extract_translatable_nodes
TF_ReadAndExtract(ok) ==
    /\ t_pc = "read"
    /\ IF ok THEN /\ nodes' = _extract_translatable_nodes(heap)
                  /\ t_pc' = "extracted"
                  /\ UNCHANGED raised
             ELSE /\ t_pc' = "failed"
                  /\ raised' = TranslationError("OSError", "read")
                  /\ UNCHANGED nodes
    /\ UNCHANGED <<heap, heap0, batch_size, offset, translations, batches, output>>
    /\ UNCHANGED <<input_bytes, output_bytes, replies>>
    /\ UNCHANGED <<cvars, bvars, hvars>>

\* if not text_nodes: output_path.write_text(content), content being what
\* input_path.read_text gave
TF_NoContent(o) ==
    /\ t_pc = "extracted"
    /\ nodes = <<>>
    /\ IF o = "ok"
       THEN /\ t_pc' = "done"
            /\ output' = "content"
            /\ output_bytes' = write_text(read_text(input_bytes))
            /\ UNCHANGED raised
       ELSE /\ t_pc' = "failed"
            /\ output' = IF o = "interrupted" THEN "partial" ELSE output
            /\ raised' = TranslationError("OSError", "write")
            /\ UNCHANGED output_bytes
    /\ UNCHANGED <<heap, heap0, nodes, batch_size, offset, translations, batches>>
    /\ UNCHANGED <<input_bytes, replies>>
    /\ UNCHANGED <<cvars, bvars, hvars>>

\* The call of _translate_nodes_in_batches.
TF_StartBatches ==
    /\ t_pc = "extracted"
    /\ nodes # <<>>
    /\ t_pc' = "batches"
    /\ offset' = 0
    /\ translations' = EmptyTranslations
    /\ UNCHANGED <<heap, heap0, nodes, batch_size, batches, output>>
    /\ UNCHANGED <<input_bytes, output_bytes, replies, raised>>
    /\ UNCHANGED <<cvars, bvars, hvars>>

\* texts[i : i + batch_size - 1]
Slice_short(ts, from, size) ==
    SubSeq(ts, from + 1, IF from + size - 1 < Len(ts) THEN from + size - 1 ELSE Len(ts))

\* texts[i : i + batch_size]
Slice(ts, from, size) ==
    SubSeq(ts, from + 1, IF from + size < Len(ts) THEN from + size ELSE Len(ts))

\* The loop without the await: the next translate_batch is started while
\* the request of the previous one is still out.
NB_NextBatch_eager ==
    /\ t_pc = "batches"
    /\ tb_pc \in {"idle", "await_batch"}
    /\ IF offset >= Len(nodes)
       THEN /\ t_pc' = "apply"
            /\ UNCHANGED <<batches, cvars>>
       ELSE LET batch == Slice(TextsOf(nodes), offset, batch_size)
            IN  /\ texts' = batch
                /\ batches' = Append(batches, batch)
                /\ tb_pc' = "start"
                /\ tb_log' = <<>>
                /\ UNCHANGED <<t_pc, fb_pass, fb_i, fb_results, tb_result, outstanding>>
    /\ UNCHANGED <<heap, heap0, nodes, batch_size, offset, translations, output>>
    /\ UNCHANGED <<input_bytes, output_bytes, replies, raised>>
    /\ UNCHANGED <<bvars, hvars>>

\* One turn of "for i in range(0, len(texts), batch_size)" up to the await of
\* translate_batch, or the return of the mapping when the range is used up.
NB_NextBatch ==
    /\ t_pc = "batches"
    /\ tb_pc = "idle"
    /\ IF offset >= Len(nodes)
       THEN /\ t_pc' = "apply"
            /\ UNCHANGED <<batches, cvars>>
       ELSE LET batch == Slice(TextsOf(nodes), offset, batch_size)
            IN  /\ texts' = batch
                /\ batches' = Append(batches, batch)
                /\ tb_pc' = "start"
                /\ tb_log' = <<>>
                /\ UNCHANGED <<t_pc, fb_pass, fb_i, fb_results, tb_result, outstanding>>
    /\ UNCHANGED <<heap, heap0, nodes, batch_size, offset, translations, output>>
    /\ UNCHANGED <<input_bytes, output_bytes, replies, raised>>
    /\ UNCHANGED <<bvars, hvars>>

\* The loop with a translation stored only for a text that has none yet.
RECURSIVE ZipInto_first(_, _, _)
ZipInto_first(tr, batch, translated_batch) ==
    IF batch = <<>> \/ translated_batch = <<>> THEN tr
    ELSE LET one == [t \in {Head(batch)} \ DOMAIN tr |-> Head(translated_batch)]
         IN  ZipInto_first(tr @@ one, Tail(batch), Tail(translated_batch))

\* for original, translated in zip(batch, translated_batch):
\*     translations[original] = translated
RECURSIVE ZipInto(_, _, _)
ZipInto(tr, batch, translated_batch) ==
    IF batch = <<>> \/ translated_batch = <<>> THEN tr
    ELSE LET rest == [t \in DOMAIN tr \ {Head(batch)} |-> tr[t]]
             one  == [t \in {Head(batch)} |-> Head(translated_batch)]
         IN  ZipInto(rest @@ one, Tail(batch), Tail(translated_batch))

\* translate_batch has returned: the mapping is extended and the loop goes on.
NB_Collect ==
    /\ t_pc = "batches"
    /\ tb_pc = "returned"
    /\ translations' = ZipInto(translations, texts, tb_result)
    /\ replies' = replies \o tb_result
    /\ offset' = offset + batch_size
    /\ tb_pc' = "idle"
    /\ UNCHANGED <<t_pc, heap, heap0, nodes, batch_size, batches, output>>
    /\ UNCHANGED <<input_bytes, output_bytes, raised>>
    /\ UNCHANGED <<texts, fb_pass, fb_i, fb_results, tb_result, outstanding, tb_log>>
    /\ UNCHANGED <<bvars, hvars>>

\* translate_batch has raised: the exception leaves the loop and is wrapped
\* by the except clause of translate_file.
NB_Raise ==
    /\ t_pc = "batches"
    /\ tb_pc = "raised"
    /\ t_pc' = "failed"
    /\ raised' = TranslationError("TranslationError", "translate")
    /\ UNCHANGED <<heap, heap0, nodes, batch_size, offset, translations, batches, output>>
    /\ UNCHANGED <<input_bytes, output_bytes, replies>>
    /\ UNCHANGED <<cvars, bvars, hvars>>

\* self._apply_translations(doc, translations)
TF_Apply ==
    /\ t_pc = "apply"
    /\ heap' = _apply_translations(heap, translations)
    /\ t_pc' = "write"
    /\ UNCHANGED <<heap0, nodes, batch_size, offset, translations, batches, output>>
    /\ UNCHANGED <<input_bytes, output_bytes, replies, raised>>
    /\ UNCHANGED <<cvars, bvars, hvars>>

\* _apply_translations called on its own with a document and a mapping
AT_Apply ==
    /\ t_pc = "apply_only"
    /\ heap' = _apply_translations(heap, translations)
    /\ t_pc' = "applied"
    /\ UNCHANGED <<heap0, nodes, batch_size, offset, translations, batches, output>>
    /\ UNCHANGED <<input_bytes, output_bytes, replies, raised>>
    /\ UNCHANGED <<cvars, bvars, hvars>>

\* marko.render(doc), mkdir and output_path.write_text(translated_content)
TF_Write(o) ==
    /\ t_pc = "write"
    /\ IF o = "ok"
       THEN /\ t_pc' = "done"
            /\ output' = "rendered"
            /\ UNCHANGED raised
       ELSE /\ t_pc' = "failed"
            /\ output' = IF o = "interrupted" THEN "partial" ELSE output
            /\ raised' = TranslationError("OSError", "write")
    /\ UNCHANGED <<heap, heap0, nodes, batch_size, offset, translations, batches>>
    /\ UNCHANGED <<input_bytes, output_bytes, replies>>
    /\ UNCHANGED <<cvars, bvars, hvars>>

NextTranslate ==
    \/ \E ok \in BOOLEAN : TF_ReadAndExtract(ok)
    \/ \E o \in WriteOutcomes : TF_NoContent(o)
    \/ TF_StartBatches
    \/ NB_NextBatch
    \/ NB_Collect
    \/ NB_Raise
    \/ TF_Apply
    \/ AT_Apply
    \/ \E o \in WriteOutcomes : TF_Write(o)
    \/ TB_Start
    \/ \E r \in BatchReplies : TB_BatchReply(r)
    \/ TI_Step
    \/ \E r \in UnitReplies : TI_UnitReply(r)
    \/ TT_Start
    \/ \E r \in UnitReplies : TT_Reply(r)

\* ------------------------------------------------- HTTPClient.get and post
\* What one run of the decorated function gives: the response, when
\* raise_for_status passed, or the exception raised by the httpx call or by
\* raise_for_status.
Transport == {"ok", "TimeoutException", "NetworkError", "HTTPStatusError_5xx",
              "HTTPStatusError_4xx", "TooManyRedirects", "InvalidURL"}

\* retry=retry_if_exception_type((httpx.TimeoutException, httpx.NetworkError,
\*                                httpx.HTTPStatusError))
retry_if_exception_type(o) ==
    o \in {"TimeoutException", "NetworkError", "HTTPStatusError_5xx", "HTTPStatusError_4xx"}

\* The subclasses of httpx.HTTPError among the exceptions.
IsHTTPError(o) ==
    o \in {"TimeoutException", "NetworkError", "HTTPStatusError_5xx",
           "HTTPStatusError_4xx", "TooManyRedirects"}

\* A stop condition that lets one more attempt through.
stop_after_attempt_late(attempt_number, max_attempt_number) ==
    attempt_number > max_attempt_number

\* stop=stop_after_attempt(self.max_retries)
stop_after_attempt(attempt_number, max_attempt_number) ==
    attempt_number >= max_attempt_number

\* wait=wait_exponential(multiplier=1, min=2, max=10)
wait_min == 2
wait_max == 10

RECURSIVE Pow2(_)
Pow2(n) == IF n = 0 THEN 1 ELSE 2 * Pow2(n - 1)

wait_exponential(attempt_number) ==
    LET exp == Pow2(attempt_number - 1)
        low == IF exp < wait_max THEN exp ELSE wait_max
    IN  IF low > wait_min THEN low ELSE wait_min

\* reraise=True
reraise == TRUE

NoResult == [kind |-> "none", message |-> <<>>, cause |-> "none"]

\* return response
Response == [kind |-> "response", message |-> <<>>, cause |-> "none"]

\* raise NetworkError(f"Failed to fetch {url} after {self.max_retries} retries") from e
\* raise NetworkError(f"Failed to post to {url} after {self.max_retries} retries") from e
FailedAfterRetries(m) ==
    [kind |-> "NetworkError",
     message |-> << IF m = "get" THEN "Failed to fetch " ELSE "Failed to post to ",
                    "{url}", " after ", "{max_retries}", " retries" >>,
     cause |-> "RetryError"]

\* raise NetworkError(f"HTTP error fetching {url}: {e}") from e
\* raise NetworkError(f"HTTP error posting to {url}: {e}") from e
HTTPErrorFetching(m, e) ==
    [kind |-> "NetworkError",
     message |-> << IF m = "get" THEN "HTTP error fetching " ELSE "HTTP error posting to ",
                    "{url}", ": ", "{e}" >>,
     cause |-> e]

\* An exception no except clause of get or post names leaves the call as it is.
Uncaught(e) == [kind |-> e, message |-> <<"{e}">>, cause |-> "none"]

\* What leaves the retrying call when it gives up on exception e, and what
\* the except clauses of get and post make of it.
Raise(m, e) ==
    IF e = "RetryError" THEN FailedAfterRetries(m)
    ELSE IF IsHTTPError(e) THEN HTTPErrorFetching(m, e)
    ELSE Uncaught(e)

\* The components that build an HTTPClient in their constructor.
Components == {"LLMClient", "MarkdownExtractor", "AssetBundler"}

\* The values of openai_api_key (Optional[str], default None) and
\* firecrawl_api_key (str, default "").
Credentials == {"None", "", "sk"}

\* The HTTPClient method the component calls: post for the chat completion
\* and for the scrape, get (inside download_file) for an asset.
MethodOf(c) == IF c = "AssetBundler" THEN "get" ELSE "post"

\* raise APIError("OpenAI API key is required (TRANSFLOW_OPENAI_API_KEY)")
OpenAIKeyRequired ==
    [kind |-> "APIError", message |-> <<"OpenAI API key is required">>, cause |-> "none"]

\* raise ValidationError("Firecrawl API key is required (TRANSFLOW_FIRECRAWL_API_KEY)")
FirecrawlKeyRequired ==
    [kind |-> "ValidationError", message |-> <<"Firecrawl API key is required">>,
     cause |-> "none"]

\* __init__ of the component: "if not config.<key>: raise" in LLMClient and
\* MarkdownExtractor, then HTTPClient(...) in all three; the first request
\* is sent by a later call.
H_Construct ==
    /\ h_pc = "construct"
    /\ IF component = "LLMClient" /\ credential \in {"None", ""}
       THEN /\ h_pc' = "init_raised"
            /\ h_result' = OpenAIKeyRequired
            /\ UNCHANGED method
       ELSE IF component = "MarkdownExtractor" /\ credential \in {"None", ""}
       THEN /\ h_pc' = "init_raised"
            /\ h_result' = FirecrawlKeyRequired
            /\ UNCHANGED method
       ELSE /\ h_pc' = "attempt"
            /\ method' = MethodOf(component)
            /\ UNCHANGED h_result
    /\ UNCHANGED <<max_retries, attempts, wait, component, credential>>
    /\ UNCHANGED <<bvars, tvars>>

\* One run of _get_with_retry or _post_with_retry under the retrying
\* wrapper: the function returns, or its exception is not one to retry, or
\* the attempts are used up, or the wrapper sleeps before the next run.
H_Attempt(o) ==
    /\ h_pc = "attempt"
    /\ attempts' = Append(attempts, o)
    /\ IF o = "ok"
       THEN /\ h_pc' = "returned"
            /\ h_result' = Response
            /\ UNCHANGED wait
       ELSE IF ~retry_if_exception_type(o)
       THEN /\ h_pc' = "raised"
            /\ h_result' = Raise(method, o)
            /\ UNCHANGED wait
       ELSE IF stop_after_attempt(Len(attempts) + 1, max_retries)
       THEN /\ h_pc' = "raised"
            /\ h_result' = Raise(method, IF reraise THEN o ELSE "RetryError")
            /\ UNCHANGED wait
       ELSE /\ h_pc' = "sleep"
            /\ wait' = wait_exponential(Len(attempts) + 1)
            /\ UNCHANGED h_result
    /\ UNCHANGED <<method, max_retries, component, credential>>
    /\ UNCHANGED <<bvars, tvars>>

\* The sleep between two attempts is over.
H_Sleep ==
    /\ h_pc = "sleep"
    /\ h_pc' = "attempt"
    /\ wait' = 0
    /\ UNCHANGED <<method, max_retries, attempts, h_result, component, credential>>
    /\ UNCHANGED <<bvars, tvars>>

NextHttp ==
    \/ H_Construct
    \/ \E o \in Transport : H_Attempt(o)
    \/ H_Sleep

\* ------------------------------------------------------------ specifications
IdleBundle ==
    /\ b_pc = "idle"
    /\ content = <<>>
    /\ M = 1
    /\ image_urls = <<>>
    /\ task = <<>>
    /\ semaphore = 0
    /\ called = {}
    /\ downloads = EmptyMap
    /\ updated_content = <<>>
    /\ readme = "absent"
    /\ meta = NoMeta

IdleClient ==
    /\ texts = <<>>
    /\ tb_pc = "idle"
    /\ fb_pass = "none"
    /\ fb_i = 0
    /\ fb_results = <<>>
    /\ tb_result = <<>>
    /\ outstanding = 0
    /\ tb_log = <<>>

IdleTranslator ==
    /\ t_pc = "idle"
    /\ heap = <<>>
    /\ heap0 = <<>>
    /\ nodes = <<>>
    /\ batch_size = 1
    /\ offset = 0
    /\ translations = EmptyTranslations
    /\ batches = <<>>
    /\ output = "absent"
    /\ input_bytes = <<>>
    /\ output_bytes = <<>>
    /\ replies = <<>>
    /\ raised = NoException
    /\ IdleClient

IdleHttp ==
    /\ h_pc = "idle"
    /\ method = "none"
    /\ max_retries = 1
    /\ attempts = <<>>
    /\ wait = 0
    /\ h_result = NoResult
    /\ component = "none"
    /\ credential = "None"

\* A component is constructed from a configuration with http_max_retries = n
\* and then calls get or post of its HTTPClient.
HttpStart ==
    /\ h_pc = "construct"
    /\ method = "none"
    /\ max_retries \in 1..MaxRetries
    /\ attempts = <<>>
    /\ wait = 0
    /\ h_result = NoResult
    /\ component \in Components
    /\ credential \in Credentials

\* translate_file on a parsed document
FileStart ==
    /\ t_pc = "read"
    /\ heap \in Docs
    /\ heap0 = heap
    /\ nodes = <<>>
    /\ batch_size \in 1..MaxBatchSize
    /\ offset = 0
    /\ translations = EmptyTranslations
    /\ batches = <<>>
    /\ output = "absent"
    /\ input_bytes \in InputFiles
    /\ output_bytes = <<>>
    /\ replies = <<>>
    /\ raised = NoException
    /\ IdleClient

\* The mappings _apply_translations is called with on its own.
Mappings ==
    UNION { [S -> {<<"b", "a">>}] : S \in SUBSET {<<"a">>, <<"b">>} }

\* _apply_translations on a parsed document and a mapping
ApplyStart ==
    /\ t_pc = "apply_only"
    /\ heap \in Docs
    /\ heap0 = heap
    /\ nodes = <<>>
    /\ batch_size = 1
    /\ offset = 0
    /\ translations \in Mappings
    /\ batches = <<>>
    /\ output = "absent"
    /\ input_bytes = <<>>
    /\ output_bytes = <<>>
    /\ replies = <<>>
    /\ raised = NoException
    /\ IdleClient

TextSet == {<<>>, <<"n">>, <<"a">>}

\* translate_batch called on its own with a list of texts, or
\* translate_text with one text
BatchStart ==
    /\ t_pc = "direct"
    /\ heap = <<>>
    /\ heap0 = <<>>
    /\ nodes = <<>>
    /\ batch_size = 1
    /\ offset = 0
    /\ translations = EmptyTranslations
    /\ batches = <<>>
    /\ output = "absent"
    /\ input_bytes = <<>>
    /\ output_bytes = <<>>
    /\ replies = <<>>
    /\ raised = NoException
    /\ \/ texts \in SeqsUpTo(TextSet, MaxTexts) /\ tb_pc = "start"
       \/ texts \in {<<t>> : t \in TextSet} /\ tb_pc = "text_start"
    /\ fb_pass = "none"
    /\ fb_i = 0
    /\ fb_results = <<>>
    /\ tb_result = <<>>
    /\ outstanding = 0
    /\ tb_log = <<>>

InitBundle == BundleStart /\ IdleTranslator /\ IdleHttp

InitTranslate == IdleBundle /\ IdleHttp /\ (FileStart \/ ApplyStart \/ BatchStart)

SpecBundle == InitBundle /\ [][NextBundle]_vars

\* Every coroutine that can run is run by the event loop, and every
\* download_file call ends (the transport has a timeout and bounded retries).
FairSpecBundle == SpecBundle /\ WF_vars(NextBundle)

SpecTranslate == InitTranslate /\ [][NextTranslate]_vars

InitHttp == IdleBundle /\ IdleTranslator /\ HttpStart

SpecHttp == InitHttp /\ [][NextHttp]_vars

\* ---------------------------------------------------------------- bundler claims
Returned == b_pc \in {"rewrite", "write_readme", "write_meta", "done",
                      "failed_readme", "failed_meta"}

Rewritten == b_pc \in {"write_readme", "write_meta", "done",
                       "failed_readme", "failed_meta"}

\* C1: while _download_assets runs, the number of downloads that hold the
\* semaphore and have not finished is at most the concurrency limit M.
C1_InFlightAtMostM == Cardinality(InFlight) <= M

\* M downloads in flight, one more URL waiting, one download already failed.
C1_Witness ==
    /\ b_pc = "gather"
    /\ Cardinality(InFlight) = M
    /\ \E i \in Tasks : task[i] = "pending"
    /\ \E i \in Tasks : task[i] = "failed"

C3_RewriteAfterAllSettled ==
    (Rewritten \/ readme = "written") => (Settled = Tasks /\ InFlight = {})

\* README.md written after three downloads of which one failed.
C3_Witness ==
    /\ readme = "written"
    /\ Len(image_urls) >= 2
    /\ \E i \in Tasks : task[i] = "failed"
    /\ \E i \in Tasks : task[i] = "ok"

Succeeded(u) == \E i \in Tasks : image_urls[i] = u /\ task[i] = "ok"

\* C4: in the rewritten text every reference whose URL was downloaded
\* successfully points at assets/<filename of that URL>, and every reference
\* whose URL was not (the download failed, or the URL is not http/https) is
\* the same as in the input.
C4_RewriteOnlySucceeded ==
    Rewritten =>
        /\ Len(updated_content) = Len(content)
        /\ \A k \in DOMAIN content :
              LET u == content[k].target.url
              IN  IF Succeeded(u)
                  THEN updated_content[k].target = Local(_generate_asset_filename(u))
                  ELSE updated_content[k] = content[k]

\* One document with a rewritten reference, a reference whose download
\* failed and a reference that is not http/https.
C4_Witness ==
    /\ Rewritten
    /\ \E k \in DOMAIN content : updated_content[k].target.local
    /\ \E k \in DOMAIN content :
          /\ IsHttp(content[k].target.url)
          /\ ~Succeeded(content[k].target.url)
          /\ updated_content[k] = content[k]
    /\ \E k \in DOMAIN content : ~IsHttp(content[k].target.url)

\* C19: a reference that stands inside a code block is no asset and is never
\* rewritten: every URL of the list to download is the target of a
\* reference outside code, and in the text written every reference inside
\* code is the same as in the input, whatever the downloads gave.
C19_CodeBlocksAreVerbatim ==
    /\ \A i \in DOMAIN image_urls :
          \E k \in DOMAIN content :
              ~content[k].code /\ content[k].target.url = image_urls[i]
    /\ Rewritten =>
          \A k \in DOMAIN content : content[k].code => updated_content[k] = content[k]

\* The first occurrence of each element, in order.
RECURSIVE Distinct(_)
Distinct(us) ==
    IF us = <<>> THEN <<>>
    ELSE LET init == Distinct(SubSeq(us, 1, Len(us) - 1))
             u    == us[Len(us)]
         IN  IF \E k \in DOMAIN init : init[k] = u THEN init ELSE Append(init, u)

\* The http/https targets of the references of a text, in text order.
HttpTargets(c) ==
    LET IsHttpRef(r) == ~r.target.local /\ IsHttp(r.target.url)
        refs == SelectSeq(c, IsHttpRef)
    IN  [k \in DOMAIN refs |-> refs[k].target.url]

\* C20: the list of URLs to download holds each distinct http/https URL of
\* the document once, in the order of first occurrence, and no URL is
\* handed to download_file twice in one bundle call.
C20_UrlsCollectedOnce ==
    b_pc \in {"gather", "rewrite", "write_readme", "write_meta", "done",
              "failed_readme", "failed_meta"} =>
        /\ image_urls = Distinct(HttpTargets(content))
        /\ \A i, j \in called : image_urls[i] = image_urls[j] => i = j

BundleFinal == b_pc \in {"done", "failed_setup", "failed_readme", "failed_meta"}

\* C21: however bundle() ends, README.md and meta.yaml are both written or
\* neither is; a failed download of an asset does not keep them from being
\* written.
C21_ReadmeAndMetaTogether ==
    BundleFinal => (readme = "written" <=> meta.written)

\* C22: for a document without any image reference to download, no
\* download is attempted, the text written to README.md is the text that
\* was read, and the manifest has asset_count 0 and no assets.
C22_NoImagesRoundTrip ==
    HttpTargets(content) = <<>> =>
        /\ called = {}
        /\ task = <<>>
        /\ Rewritten => updated_content = content
        /\ b_pc = "done" =>
              /\ readme = "written"
              /\ meta.written
              /\ meta.asset_count = 0
              /\ meta.assets = <<>>

\* A bundle made from a document without image references.
C22_Witness ==
    /\ b_pc = "done"
    /\ content = <<>>
    /\ meta.asset_count = 0

\* C25: a value of http_concurrent_downloads outside 1..20 is rejected when
\* the configuration is built, so a bundle call runs with M in 1..20 and
\* its downloads never wait on a semaphore that has no permit to give.
C25_ConcurrencyValidated ==
    /\ b_pc \notin {"config", "config_rejected", "idle"} => M \in 1..20
    /\ b_pc = "config_rejected" => M \notin 1..20
    /\ (b_pc = "gather" /\ \E i \in Tasks : task[i] = "pending") =>
          (semaphore > 0 \/ InFlight # {})

\* The value 0 was rejected.
C25_Witness ==
    /\ b_pc = "config_rejected"
    /\ M = 0

\* C28: two different URLs downloaded in one bundle call never have the
\* same local filename.
C28_DistinctUrlsDistinctFiles ==
    \A i, j \in called :
        image_urls[i] # image_urls[j] =>
            _generate_asset_filename(image_urls[i]) # _generate_asset_filename(image_urls[j])

\* C30: while _download_assets runs, the downloads in flight and the free
\* permits add up to M, and when it has returned every permit is free.
C30_PermitsGivenBack ==
    /\ b_pc = "gather" => Cardinality(InFlight) + semaphore = M
    /\ (Returned /\ image_urls # <<>>) => semaphore = M

\* _download_assets has returned after a download that failed and one that
\* succeeded.
C30_Witness ==
    /\ Returned
    /\ \E i \in Tasks : task[i] = "failed"
    /\ \E i \in Tasks : task[i] = "ok"
    /\ semaphore = M

\* ------------------------------------------------------------ translator claims
IsUnitRequest(e) == e.ev = "unit_request"

\* The positions of texts for which translate_text sent a request, in order.
UnitRequests ==
    LET reqs == SelectSeq(tb_log, IsUnitRequest)
    IN  [k \in DOMAIN reqs |-> reqs[k].unit]

\* The completion of the last request sent for position k.
LastUnitReply(k) ==
    LET hits == {m \in DOMAIN tb_log : tb_log[m].ev = "unit_translated" /\ tb_log[m].unit = k}
    IN  tb_log[CHOOSE m \in hits : \A x \in hits : x <= m].text

C6_FallbackFailureAborts ==
    LogHas("unit_failed") =>
        /\ tb_pc = "raised"
        /\ outstanding = 0
        /\ output = "absent"

\* The segments translate_batch finds in the reply it accepted.
MatchedSegments ==
    Split(Strip(tb_log[Len(tb_log)].text))

\* C7: when the reply has as many segments as non-blank texts were sent,
\* translate_batch returns a list as long as its input in which the m-th
\* non-blank text is replaced by the m-th segment (stripped) and every blank
\* text is unchanged at its position.
C7_MatchedReplyIsPairedInOrder ==
    (tb_pc = "returned" /\ LogHas("batch_matched")) =>
        /\ Len(tb_result) = Len(texts)
        /\ \A k \in DOMAIN texts : IsBlank(texts[k]) => tb_result[k] = texts[k]
        /\ \A m \in DOMAIN non_empty_indices(texts) :
              tb_result[non_empty_indices(texts)[m]] = Strip(MatchedSegments[m])

\* ["a", "", "b"] answered by two different segments.
C7_Witness ==
    /\ tb_pc = "returned"
    /\ LogHas("batch_matched")
    /\ Len(texts) = 3
    /\ ~IsBlank(texts[1]) /\ IsBlank(texts[2]) /\ ~IsBlank(texts[3])
    /\ tb_result[1] # tb_result[3]
    /\ tb_result[1] # texts[1]

RECURSIVE Concat(_)
Concat(ss) == IF ss = <<>> THEN <<>> ELSE Head(ss) \o Concat(Tail(ss))

IsPrefix(p, s) == Len(p) <= Len(s) /\ SubSeq(s, 1, Len(p)) = p

CeilDiv(n, d) == (n + d - 1) \div d

\* C8: _translate_nodes_in_batches cuts the texts into consecutive batches
\* of at most batch_size: every batch passed to translate_batch is non-empty
\* and no longer than batch_size, the batches in call order are a prefix of
\* the texts, and when the loop has ended there were ceil(n / batch_size)
\* calls whose batches put together are the texts in extraction order.
C8_BatchesPartitionTheUnits ==
    /\ \A k \in DOMAIN batches : Len(batches[k]) >= 1 /\ Len(batches[k]) <= batch_size
    /\ IsPrefix(Concat(batches), TextsOf(nodes))
    /\ t_pc \in {"apply", "write", "done"} =>
          /\ Len(batches) = CeilDiv(Len(nodes), batch_size)
          /\ Concat(batches) = TextsOf(nodes)

\* Four units cut into a batch of three and a batch of one.
C8_Witness ==
    /\ t_pc = "apply"
    /\ Len(nodes) = 4
    /\ batch_size = 3
    /\ Len(batches) = 2
    /\ Len(batches[2]) = 1

\* C9: the batches are processed one after the other: at most one provider
\* request is out at any time, and translate_batch is called for the next
\* batch only when the previous call, fallback included, has returned and
\* no request is out.
C9_BatchesAreSequential ==
    /\ [](outstanding <= 1)
    /\ [][Len(batches') > Len(batches) => (tb_pc = "idle" /\ outstanding = 0)]_vars

\* A fallback request of the second batch is out.
C9_Witness ==
    /\ Len(batches) = 2
    /\ tb_pc = "await_unit"
    /\ outstanding = 1

\* C10: applying the translations leaves every node object of the parsed
\* document as it was parsed.
C10_OriginalNodesUnchanged ==
    t_pc \in {"write", "done"} =>
        \A id \in DOMAIN heap0 : heap[id] = heap0[id]

\* The nodes of the tree of heap h under node id.
RECURSIVE Reachable(_, _)
Reachable(h, id) ==
    {id} \cup UNION {Reachable(h, h[id].children[k]) : k \in DOMAIN h[id].children}

Applied == t_pc \in {"write", "done", "applied"}

\* The flattened text the block had when the document was parsed.
Text0(id) == _extract_text_from_inline(heap0, id)

InMapping(id) ==
    /\ id \in DOMAIN heap0
    /\ heap0[id].kind \in TranslatedKinds
    /\ ~IsBlank(Text0(id))
    /\ Text0(id) \in DOMAIN translations

FileRun == t_pc \notin {"idle", "direct", "apply_only", "applied"}

NoProse == \A id \in DOMAIN heap0 : heap0[id].kind \notin TranslatedKinds

\* C12: translate_file on a document without any Paragraph, Heading or Quote
\* block sends no request to the provider, and the output it writes has the
\* bytes of the input file.
C12_NoContentIsCopied ==
    (FileRun /\ NoProse) =>
        /\ tb_log = <<>>
        /\ outstanding = 0
        /\ batches = <<>>
        /\ t_pc = "done" => (output = "content" /\ output_bytes = input_bytes)

\* The flattened text of a block by the rule of the claim: RawText in
\* document order, nothing from code spans and nothing from code blocks or
\* raw markup.
RECURSIVE ProseText(_, _)
ProseText(h, id) ==
    IF h[id].kind = "RawText" THEN h[id].text
    ELSE IF h[id].kind \in SkippedKinds \cup {"CodeSpan"} THEN <<>>
    ELSE Concat([k \in DOMAIN h[id].children |-> ProseText(h, h[id].children[k])])

\* The nodes in depth-first order, code blocks and raw markup not entered.
RECURSIVE Preorder(_, _)
Preorder(h, id) ==
    IF h[id].kind \in SkippedKinds THEN <<>>
    ELSE <<id>> \o Concat([k \in DOMAIN h[id].children |-> Preorder(h, h[id].children[k])])

ProseUnits(h) ==
    LET IsUnit(id) == h[id].kind \in TranslatedKinds /\ ~IsBlank(ProseText(h, id))
    IN  SelectSeq(Preorder(h, 1), IsUnit)

\* C13: the units _extract_translatable_nodes returns are, in depth-first
\* order, exactly the Paragraph, Heading and Quote blocks with a non-blank
\* flattened text, code blocks and raw markup giving no unit and no text;
\* the batches take the units in that order.
C13_UnitsInDocumentOrder ==
    (FileRun /\ t_pc # "read" /\ t_pc # "failed") =>
        /\ [k \in DOMAIN nodes |-> nodes[k].node] = ProseUnits(heap0)
        /\ \A k \in DOMAIN nodes : nodes[k].text = ProseText(heap0, nodes[k].node)
        /\ IsPrefix(Concat(batches), TextsOf(nodes))

LastIndex(ts, t) ==
    CHOOSE k \in DOMAIN ts : ts[k] = t /\ \A m \in DOMAIN ts : ts[m] = t => m <= k

\* C17: the mapping _translate_nodes_in_batches returns has for keys the
\* distinct texts of the units, so no more keys than translations returned,
\* and each text has the translation returned for its last occurrence; this
\* holds for every run that returns a mapping, so for those where the reply
\* to each joined request had as many segments as texts sent.
C17_MappingKeepsLastOccurrence ==
    t_pc \in {"apply", "write", "done"} =>
        LET ts == TextsOf(nodes)
        IN  /\ Len(replies) = Len(ts)
            /\ DOMAIN translations = {ts[k] : k \in DOMAIN ts}
            /\ Cardinality(DOMAIN translations) <= Len(replies)
            /\ \A k \in DOMAIN ts :
                  translations[ts[k]] = replies[LastIndex(ts, ts[k])]

\* One batch of three units with the same text whose joined reply had three
\* segments, the first and the last different.
C17_Witness ==
    /\ t_pc = "apply"
    /\ Len(batches) = 1
    /\ LogHas("batch_matched")
    /\ Len(nodes) = 3
    /\ nodes[1].text = nodes[3].text
    /\ replies[1] # replies[3]
    /\ translations[nodes[1].text] = replies[3]

NotBlank(t) == ~IsBlank(t)

\* C18: a blank text never reaches the provider and comes back as it is: a
\* request for one text is sent only for a non-blank text, the joined
\* request holds the non-blank texts only, a list of blank texts sends
\* nothing, and the result has every blank text at its position.
C18_BlankNeverSent ==
    /\ \A k \in DOMAIN tb_log :
          /\ tb_log[k].ev = "unit_request" =>
                (~IsBlank(texts[tb_log[k].unit]) /\ tb_log[k].text = texts[tb_log[k].unit])
          /\ tb_log[k].ev = "batch_request" =>
                tb_log[k].text = Join(SelectSeq(texts, NotBlank))
    /\ (\A k \in DOMAIN texts : IsBlank(texts[k])) => (tb_log = <<>> /\ outstanding = 0)
    /\ tb_pc = "returned" =>
          /\ Len(tb_result) = Len(texts)
          /\ \A k \in DOMAIN texts : IsBlank(texts[k]) => tb_result[k] = texts[k]

\* A batch with a blank text between others whose joined reply did not
\* match, so that the fallback went over the blank text too.
C18_Witness ==
    /\ tb_pc = "returned"
    /\ LogHas("batch_request")
    /\ LogHas("batch_mismatch")
    /\ Len(texts) = 3
    /\ IsBlank(texts[2])
    /\ ~IsBlank(texts[1])
    /\ ~IsBlank(texts[3])

\* ------------------------------------------------------------ HTTP client claims
GaveUp ==
    /\ h_pc = "raised"
    /\ Len(attempts) = max_retries
    /\ retry_if_exception_type(attempts[Len(attempts)])

\* C14: get and post make a further attempt only after a timeout, a
\* connection failure or a server-error status; a client-error status is
\* reported after the one attempt that met it.
C14_ClientErrorNotRetried ==
    \A k \in DOMAIN attempts :
        k < Len(attempts) =>
            attempts[k] \in {"TimeoutException", "NetworkError", "HTTPStatusError_5xx"}

InMessage(part) == \E k \in DOMAIN h_result.message : h_result.message[k] = part

\* C16: when get and post give up after the last attempt allowed, what the
\* caller gets is a NetworkError that has the failure of the last attempt
\* for cause and whose message holds the URL and the number of attempts.
C16_GiveUpCarriesUrlAndCount ==
    GaveUp =>
        /\ h_result.kind = "NetworkError"
        /\ h_result.cause = attempts[Len(attempts)]
        /\ InMessage("{url}")
        /\ InMessage("{max_retries}")

\* ------------------------------------------------- error handling of translate
\* C24: a failure inside translate_file reaches the caller as
\* TranslationError and as no other type, and when the failure happened
\* before the final write nothing is at the output path.
C24_FailureIsTranslationError ==
    /\ raised.type \in {"none", "TranslationError"}
    /\ t_pc = "failed" <=> raised.type = "TranslationError"
    /\ (t_pc = "failed" /\ raised.at # "write") =>
          /\ output = "absent"
          /\ output_bytes = <<>>

\* translate_file has failed in its second batch, after a first batch was
\* translated.
C24_Witness ==
    /\ t_pc = "failed"
    /\ raised = TranslationError("TranslationError", "translate")
    /\ Len(batches) = 2
    /\ output = "absent"

\* C26, as stated: once the joined request has failed, translate_batch does
\* not raise.
C26_BatchFailureNeverRaises ==
    LogHas("batch_failed") => tb_pc # "raised"

\* C26, amended: the failure of the joined request does not leave
\* translate_batch; every non-blank text of the batch is requested on its
\* own, in order, and when all these requests are answered translate_batch
\* returns their completions with the blank texts unchanged.  It raises only
\* when one of the requests of the fallback fails.
C26_BatchFailureFallsBack ==
    LogHas("batch_failed") =>
        /\ tb_pc = "raised" => LogHas("unit_failed")
        /\ IsPrefix(UnitRequests, non_empty_indices(texts))
        /\ tb_pc = "returned" =>
              /\ ~LogHas("unit_failed")
              /\ UnitRequests = non_empty_indices(texts)
              /\ Len(tb_result) = Len(texts)
              /\ \A k \in DOMAIN texts :
                    tb_result[k] = IF IsBlank(texts[k]) THEN texts[k]
                                   ELSE Strip(LastUnitReply(k))

\* A batch of two sent texts whose joined request failed and whose two
\* requests of the fallback were answered.
C26_Witness ==
    /\ tb_pc = "returned"
    /\ LogHas("batch_failed")
    /\ Len(UnitRequests) = 2
    /\ Len(tb_result) = Len(texts)

IsRequest(e) == e.ev \in {"batch_request", "unit_request"}

\* C27: one translate_batch call sends at most one request more than the
\* batch has non-blank texts, and never sends a request for a text whose
\* request of the fallback was already answered.
C27_FallbackStartedOnce ==
    /\ Len(SelectSeq(tb_log, IsRequest)) <= 1 + Len(non_empty_indices(texts))
    /\ \A m, n \in DOMAIN tb_log :
          (m < n /\ tb_log[m].ev = "unit_translated" /\ tb_log[n].ev = "unit_request") =>
              tb_log[m].unit # tb_log[n].unit

\* C29: after _apply_translations, every unit the extraction returned whose
\* text is in the mapping is a block of the document tree whose only child
\* is the RawText of its translation, the Paragraphs inside a Quote
\* included.
C29_EveryUnitApplied ==
    Applied =>
        LET units == _extract_translatable_nodes(heap0)
        IN  \A k \in DOMAIN units :
                units[k].text \in DOMAIN translations =>
                    /\ units[k].node \in Reachable(heap, 1)
                    /\ Len(heap[units[k].node].children) = 1
                    /\ heap[heap[units[k].node].children[1]] =
                           Node("RawText", <<>>, translations[units[k].text])

\* ------------------------------------------------------ missing credentials
\* C23: an LLMClient built without openai_api_key and a MarkdownExtractor
\* built without firecrawl_api_key fail in the constructor with
\* ValidationError, before any request is sent.
C23_MissingCredentialIsValidationError ==
    (/\ h_pc # "construct"
     /\ component \in {"LLMClient", "MarkdownExtractor"}
     /\ credential \in {"None", ""}) =>
        /\ h_pc = "init_raised"
        /\ h_result.kind = "ValidationError"
        /\ attempts = <<>>

====
